---- MODULE Spec2Model ----
(***************************************************************************)
(* Model of the LLMIS inference gateway: the model registry                *)
(* (ModelManager), per-model admission control (ModelHandle::stream and    *)
(* GuardedStream), the llama-server streaming adapter                      *)
(* (LlamaServerBackend::generate_stream) and the two response assemblers   *)
(* (stream_chat, aggregate_chat).                                          *)
(*                                                                         *)
(* Text is modelled as sequences of one-character strings, transport       *)
(* chunks as sequences of bytes (an ASCII byte is written as its           *)
(* character, a non-ASCII byte as "xHH").                                  *)
(***************************************************************************)
EXTENDS Integers, Sequences, FiniteSets, TLC

(***************************************************************************)
(* Strings                                                                 *)
(***************************************************************************)

\* U+FFFD, what String::from_utf8_lossy puts for an invalid byte sequence.
Replacement == "U+FFFD"

\* The lead byte and the continuation byte of the two-byte character e-acute.
LeadBytes == {"xC3"}
ContBytes == {"xA9"}
DecodePair(lead, cont) == "e-acute"

\* String::from_utf8_lossy over one chunk: a complete two-byte sequence is
\* its character, a lead byte without its continuation or a continuation
\* byte alone is U+FFFD, an ASCII byte is itself.
FromUtf8Lossy(bytes) ==
    LET n == Len(bytes)
        Consumed(i) == i > 1 /\ bytes[i] \in ContBytes /\ bytes[i - 1] \in LeadBytes
        At(i) ==
            IF bytes[i] \in LeadBytes
            THEN IF i < n /\ bytes[i + 1] \in ContBytes
                 THEN DecodePair(bytes[i], bytes[i + 1])
                 ELSE Replacement
            ELSE IF bytes[i] \in ContBytes
                 THEN IF Consumed(i) THEN "" ELSE Replacement
                 ELSE bytes[i]
        Keep(c) == c # ""
    IN  SelectSeq([i \in 1 .. n |-> At(i)], Keep)

\* char::is_whitespace, over the characters the model uses.
IsWhitespace(c) == c \in {" ", "\n", "\t", "\r"}

\* Variant of Trim that trims nothing.
NoTrim(s) == s

\* str::trim: the characters from the first to the last that is no
\* whitespace.
Trim(s) ==
    LET I == {i \in 1 .. Len(s) : ~IsWhitespace(s[i])}
    IN  IF I = {} THEN <<>>
        ELSE SubSeq(s, CHOOSE i \in I : \A j \in I : i <= j,
                       CHOOSE i \in I : \A j \in I : i >= j)

StartsWith(s, p) == Len(s) >= Len(p) /\ SubSeq(s, 1, Len(p)) = p

\* Option<T>: <<>> is None, <<v>> is Some(v).
Some(v) == <<v>>
UnwrapOr(o, d) == IF o = <<>> THEN d ELSE o[1]

\* usize::min
MinOf(a, b) == IF a <= b THEN a ELSE b

\* str::find: Some(the number of characters before the first occurrence of
\* pat in s), or None.
Find(s, pat) ==
    LET I == {i \in 0 .. Len(s) - Len(pat) : SubSeq(s, i + 1, i + Len(pat)) = pat}
    IN  IF I = {} THEN <<>> ELSE Some(CHOOSE i \in I : \A j \in I : i <= j)

Delim == <<"\n", "\n">>
DataPrefix == <<"d", "a", "t", "a", ":">>
DoneSentinel == <<"[", "D", "O", "N", "E", "]">>

\* part.strip_prefix("data:") followed by trim, or the part itself.
StripData(part) ==
    IF StartsWith(part, DataPrefix)
    THEN Trim(SubSeq(part, Len(DataPrefix) + 1, Len(part)))
    ELSE part

(***************************************************************************)
(* serde_json::from_str::<Value> and the Value accessors.                  *)
(* A Value is a tagged record: null, bool (b), num (n, its digits),        *)
(* str (s), arr (a) or obj (m, the members in order).                      *)
(* The parser covers the JSON grammar over the characters the model uses:  *)
(* objects, arrays, strings with the escapes \" \\ \/ \n, true, false,     *)
(* null and integers.                                                      *)
(***************************************************************************)

Absent == [t |-> "absent"]
ParseError == [ok |-> FALSE]
Parsed(v, i) == [ok |-> TRUE, v |-> v, i |-> i]

Digits == {"0", "1", "2", "3", "4", "5", "6", "7", "8", "9"}
JsonWhitespace == {" ", "\n", "\t", "\r"}

RECURSIVE SkipWs(_, _)
SkipWs(s, i) ==
    IF i <= Len(s) /\ s[i] \in JsonWhitespace THEN SkipWs(s, i + 1) ELSE i

\* The characters of a string literal whose opening quote is before i.
RECURSIVE ParseStringBody(_, _, _)
ParseStringBody(s, i, acc) ==
    IF i > Len(s) THEN ParseError
    ELSE IF s[i] = "\"" THEN Parsed([t |-> "str", s |-> acc], i + 1)
    ELSE IF s[i] = "\\"
         THEN IF i + 1 > Len(s) THEN ParseError
              ELSE IF s[i + 1] \in {"\"", "\\", "/"}
                   THEN ParseStringBody(s, i + 2, Append(acc, s[i + 1]))
              ELSE IF s[i + 1] = "n"
                   THEN ParseStringBody(s, i + 2, Append(acc, "\n"))
              ELSE ParseError
    ELSE IF s[i] \in {"\n", "\t", "\r"} THEN ParseError
    ELSE ParseStringBody(s, i + 1, Append(acc, s[i]))

RECURSIVE ParseDigits(_, _, _)
ParseDigits(s, i, acc) ==
    IF i <= Len(s) /\ s[i] \in Digits
    THEN ParseDigits(s, i + 1, Append(acc, s[i]))
    ELSE Parsed([t |-> "num", n |-> acc], i)

\* An integer: an optional minus, then 0 or a digit sequence without a
\* leading zero.
ParseNumber(s, i) ==
    LET j == IF s[i] = "-" THEN i + 1 ELSE i
        sign == IF s[i] = "-" THEN <<"-">> ELSE <<>>
    IN  IF j > Len(s) \/ s[j] \notin Digits THEN ParseError
        ELSE IF s[j] = "0"
             THEN IF j + 1 <= Len(s) /\ s[j + 1] \in Digits
                  THEN ParseError
                  ELSE Parsed([t |-> "num", n |-> sign \o <<"0">>], j + 1)
        ELSE ParseDigits(s, j, sign)

ParseLiteral(s, i, word, v) ==
    IF StartsWith(SubSeq(s, i, Len(s)), word) THEN Parsed(v, i + Len(word)) ELSE ParseError

RECURSIVE ParseValue(_, _)
RECURSIVE ParseElements(_, _, _)
RECURSIVE ParseMembers(_, _, _)

\* The elements of an array after its first: "," value ... "]".
ParseElements(s, i, acc) ==
    LET j == SkipWs(s, i)
    IN  IF j > Len(s) THEN ParseError
        ELSE IF s[j] = "]" THEN Parsed([t |-> "arr", a |-> acc], j + 1)
        ELSE IF s[j] = ","
             THEN LET e == ParseValue(s, j + 1)
                  IN  IF e.ok THEN ParseElements(s, e.i, Append(acc, e.v)) ELSE ParseError
        ELSE ParseError

\* One member (key ":" value) at i, then "," member ... "}".
ParseMembers(s, i, acc) ==
    LET j == SkipWs(s, i)
    IN  IF j > Len(s) \/ s[j] # "\"" THEN ParseError
        ELSE LET k == ParseStringBody(s, j + 1, <<>>)
             IN  IF ~k.ok THEN ParseError
                 ELSE LET c == SkipWs(s, k.i)
                      IN  IF c > Len(s) \/ s[c] # ":" THEN ParseError
                          ELSE LET e == ParseValue(s, c + 1)
                               IN  IF ~e.ok THEN ParseError
                                   ELSE LET n == SkipWs(s, e.i)
                                            m == Append(acc, [k |-> k.v.s, v |-> e.v])
                                        IN  IF n > Len(s) THEN ParseError
                                            ELSE IF s[n] = "}" THEN Parsed([t |-> "obj", m |-> m], n + 1)
                                            ELSE IF s[n] = "," THEN ParseMembers(s, n + 1, m)
                                            ELSE ParseError

ParseValue(s, i) ==
    LET j == SkipWs(s, i)
    IN  IF j > Len(s) THEN ParseError
        ELSE IF s[j] = "{"
             THEN LET n == SkipWs(s, j + 1)
                  IN  IF n <= Len(s) /\ s[n] = "}"
                      THEN Parsed([t |-> "obj", m |-> <<>>], n + 1)
                      ELSE ParseMembers(s, j + 1, <<>>)
        ELSE IF s[j] = "["
             THEN LET n == SkipWs(s, j + 1)
                  IN  IF n <= Len(s) /\ s[n] = "]"
                      THEN Parsed([t |-> "arr", a |-> <<>>], n + 1)
                      ELSE LET e == ParseValue(s, j + 1)
                           IN  IF e.ok THEN ParseElements(s, e.i, <<e.v>>) ELSE ParseError
        ELSE IF s[j] = "\"" THEN ParseStringBody(s, j + 1, <<>>)
        ELSE IF s[j] = "t" THEN ParseLiteral(s, j, <<"t", "r", "u", "e">>, [t |-> "bool", b |-> TRUE])
        ELSE IF s[j] = "f" THEN ParseLiteral(s, j, <<"f", "a", "l", "s", "e">>, [t |-> "bool", b |-> FALSE])
        ELSE IF s[j] = "n" THEN ParseLiteral(s, j, <<"n", "u", "l", "l">>, [t |-> "null"])
        ELSE IF s[j] = "-" \/ s[j] \in Digits THEN ParseNumber(s, j)
        ELSE ParseError

\* serde_json::from_str: one value, then nothing but whitespace.
FromStr(s) ==
    LET r == ParseValue(s, 1)
    IN  IF r.ok /\ SkipWs(s, r.i) > Len(s) THEN [ok |-> TRUE, v |-> r.v] ELSE ParseError

\* Value::get(key): the member of an object under key (the last one when the
\* key is repeated), Absent for a missing key or a value that is no object.
RECURSIVE LastMember(_, _, _)
LastMember(m, key, i) ==
    IF i = 0 THEN Absent
    ELSE IF m[i].k = key THEN m[i].v
    ELSE LastMember(m, key, i - 1)

Get(v, key) == IF v.t = "obj" THEN LastMember(v.m, key, Len(v.m)) ELSE Absent

\* Value::get(0): the first element of an array.
GetIndex0(v) == IF v.t = "arr" /\ Len(v.a) >= 1 THEN v.a[1] ELSE Absent

\* Option<&Value>::or_else
OrElse(a, b) == IF a.t # "absent" THEN a ELSE b

IsStr(v) == v.t = "str"
IsTrue(v) == v.t = "bool" /\ v.b

K_token == <<"t", "o", "k", "e", "n">>
K_text == <<"t", "e", "x", "t">>
K_content == <<"c", "o", "n", "t", "e", "n", "t">>
K_choices == <<"c", "h", "o", "i", "c", "e", "s">>
K_delta == <<"d", "e", "l", "t", "a">>
K_finish_reason == <<"f", "i", "n", "i", "s", "h", "_", "r", "e", "a", "s", "o", "n">>
K_done == <<"d", "o", "n", "e">>
K_stop == <<"s", "t", "o", "p">>
K_completed == <<"c", "o", "m", "p", "l", "e", "t", "e", "d">>

\* token_text: token.text, else (content or else text) as a string, else
\* choices[0].delta.content, else choices[0].text, else empty.
TokenText(v) ==
    LET a == Get(Get(v, K_token), K_text)
        b == OrElse(Get(v, K_content), Get(v, K_text))
        c0 == GetIndex0(Get(v, K_choices))
        c == Get(Get(c0, K_delta), K_content)
        d == Get(c0, K_text)
    IN  IF IsStr(a) THEN a.s
        ELSE IF IsStr(b) THEN b.s
        ELSE IF IsStr(c) THEN c.s
        ELSE IF IsStr(d) THEN d.s
        ELSE <<>>

\* finish_reason: choices[0].finish_reason as a string, else empty.
FinishReason(v) ==
    LET f == Get(GetIndex0(Get(v, K_choices)), K_finish_reason)
    IN  IF IsStr(f) THEN f.s ELSE <<>>

\* Variant of DoneFlag that does not look at finish_reason.
DoneFlagNoReason(v) ==
    IsTrue(OrElse(OrElse(Get(v, K_done), Get(v, K_stop)), Get(v, K_completed)))

\* done_flag: the first present of done, stop, completed is boolean true, or
\* finish_reason is "stop".
DoneFlag(v) ==
    \/ IsTrue(OrElse(OrElse(Get(v, K_done), Get(v, K_stop)), Get(v, K_completed)))
    \/ FinishReason(v) = K_stop

(***************************************************************************)
(* Bounds and the inputs the environment draws from                        *)
(***************************************************************************)

\* Generation requests the clients issue (each enters a handler once).
NumRequests == 2
\* load_model calls issued while the server runs.
NumLoads == 2

Requests == 1 .. NumRequests
LoadCalls == 1 .. NumLoads
\* The unload_model call that races the loads.
UnloadCalls == {1}

\* A handle is named by the load_model call that built it; 0 is the handle
\* built from the configured model list before the server starts serving.
StartupHandle == 0
HandleIds == {StartupHandle} \cup LoadCalls

\* LimitConfig::default_max_concurrent
DefaultMaxConcurrent == 2
\* LimitConfig::default_max_tokens
DefaultMaxTokens == 512
\* The context length of a model whose config gives none.
DefaultContext == 2048
\* The capacity of the hand-off channel of one generation.
ChannelCapacity == 32

ModelNames == {"a", "b"}

MkConfig(name, device, quantization, maxc, backend) ==
    [name |-> name, device |-> device, quantization |-> quantization,
     max_concurrent |-> maxc, backend |-> backend, context_length |-> <<>>]

\* A config that gives a context length.
WithContext(cfg, n) == [cfg EXCEPT !.context_length = Some(n)]

\* The model list of the configuration file, loaded before serving: one
\* model, with or without a max_concurrent of its own.
StartupConfigs ==
    { MkConfig("a", <<>>, <<>>, Some(1), Some("llama-server")),
      MkConfig("a", <<>>, <<>>, <<>>, Some("llama-server")) }

\* The bodies of POST /admin/models/load.
LoadConfigs ==
    { MkConfig("a", Some("gpu"), Some("q4"), <<>>, <<>>),
      MkConfig("a", <<>>, <<>>, Some(1), Some("llm")),
      MkConfig("b", <<>>, Some("q8"), Some(1), Some("llama-server")),
      MkConfig("b", <<>>, <<>>, <<>>, Some("onnx")),
      MkConfig("a", <<>>, <<>>, Some(1), Some("onnx")) }

(***************************************************************************)
(* State                                                                   *)
(***************************************************************************)

VARIABLES
    models,     \* ModelManager.models: the set of entries [name, handle]
    handles,    \* per handle id: info, semaphore permits, backend state
    metrics,    \* Metrics: the four counters
    loads,      \* per load_model call: its position and locals
    unloads,    \* per unload_model call: its position and locals
    req,        \* per generation request: handler / assembler task
    prod,       \* per generation request: producer task and hand-off channel
    lists,      \* per list_models call: its position in the iteration
    limits      \* AppState.config.limits: max_tokens

vars == <<models, handles, metrics, loads, unloads, req, prod, lists, limits>>

\* TokenEvent
Event(token, finished) == [token |-> token, finished |-> finished]

NoInfo == [name |-> "", device |-> "", backend |-> "", quantization |-> <<>>, max_concurrent |-> 0]

\* A handle id no load has built yet. state is "fresh", "live" (the Arc is
\* held by the map or by a handler) or "dropped".
FreshHandle ==
    [state |-> "fresh", info |-> NoInfo, available |-> 0, unload_calls |-> 0,
     max_context |-> 0]

\* backend_choice of load_model: cfg.backend or "llm".
BackendChoice(cfg) == UnwrapOr(cfg.backend, "llm")

\* Variant of SupportedBackend that takes every kind.
SupportedBackendAny(choice) == TRUE

\* The arms of the match on backend_choice that build an adapter.
SupportedBackend(choice) == choice \in {"llm", "llama-server"}

\* The ModelInfo load_model builds from a config.
ResolveInfo(cfg) ==
    [name |-> cfg.name,
     device |-> UnwrapOr(cfg.device, "cpu"),
     backend |-> BackendChoice(cfg),
     quantization |-> cfg.quantization,
     max_concurrent |-> UnwrapOr(cfg.max_concurrent, DefaultMaxConcurrent)]

\* LlamaServerBackend::new: max_context
MaxContext(cfg) == UnwrapOr(cfg.context_length, DefaultContext)

\* Arc::new(ModelHandle { info, backend, semaphore: Semaphore::new(max_concurrent) })
NewHandle(cfg) ==
    [state |-> "live", info |-> ResolveInfo(cfg),
     available |-> ResolveInfo(cfg).max_concurrent, unload_calls |-> 0,
     max_context |-> MaxContext(cfg)]

\* DashMap::get
Lookup(m, name) ==
    IF \E e \in m : e.name = name
    THEN Some((CHOOSE e \in m : e.name = name).handle)
    ELSE <<>>

\* Variant of Insert that leaves the old entry in place.
InsertKeepOld(m, name, h) == m \cup {[name |-> name, handle |-> h]}

\* DashMap::insert: the entry under the key is replaced.
Insert(m, name, h) ==
    {e \in m : e.name # name} \cup {[name |-> name, handle |-> h]}

\* DashMap::remove
Remove(m, name) == {e \in m : e.name # name}

\* DashMap::len
MapLen(m) == Cardinality(m)

\* ModelManager::list_models when nothing else runs during the call: one
\* summary per entry of the map.
RECURSIVE ListOf(_, _)
ListOf(m, hs) ==
    IF m = {} THEN <<>>
    ELSE LET e == CHOOSE x \in m : TRUE
         IN  <<hs[e.handle].info>> \o ListOf(m \ {e}, hs)

list_models == ListOf(models, handles)

\* The list_models call that runs beside the loads and unloads.
ListCalls == {1}

\* DashMap keeps its entries in shards, a key's shard given by its hash
\* (the hasher is seeded at random when the map is built), and iter() visits
\* the shards in order, holding the read lock of one shard at a time. The
\* shards that can hold the names, in the order iter() visits them: both
\* names in one shard, or each in its own.
ShardLayouts ==
    { <<{"a", "b"}>>, <<{"a"}, {"b"}>>, <<{"b"}, {"a"}>> }

IdleList == [pc |-> "idle", order |-> <<>>, out |-> {}, seen |-> {}]

\* The summaries of the registry's entries at one instant.
Content(m, hs) == {hs[e.handle].info : e \in m}

\* History of a running list_models call: the contents the registry has had
\* since the call began, kept to compare what the call returns with.
Observed(ls, m, hs) ==
    [c \in ListCalls |->
        IF ls[c].pc = "iter" THEN [ls[c] EXCEPT !.seen = @ \cup {Content(m, hs)}] ELSE ls[c]]

\* list_models begins: self.models.iter()
ListBegin(c, layout) ==
    /\ lists[c].pc = "idle"
    /\ lists' = [lists EXCEPT ![c] =
                    [pc |-> "iter", order |-> layout, out |-> {},
                     seen |-> {Content(models, handles)}]]
    /\ UNCHANGED <<models, handles, metrics, loads, unloads, req, prod, limits>>

\* The iterator takes the next shard's read lock and maps its entries to
\* summaries; after the last shard, collect() returns.
ListShard(c) ==
    /\ lists[c].pc = "iter"
    /\ LET shard == Head(lists[c].order)
           got == {handles[e.handle].info : e \in {x \in models : x.name \in shard}}
       IN  lists' = [lists EXCEPT ![c] =
                        [@ EXCEPT !.pc = IF Len(lists[c].order) = 1 THEN "done" ELSE "iter",
                                  !.order = Tail(@),
                                  !.out = @ \cup got]]
    /\ UNCHANGED <<models, handles, metrics, loads, unloads, req, prod, limits>>

(***************************************************************************)
(* ModelManager::load_model and ModelManager::unload_model                 *)
(***************************************************************************)

NoConfig == MkConfig("", <<>>, <<>>, <<>>, <<>>)
IdleLoad == [pc |-> "idle", cfg |-> NoConfig, len |-> 0, replaced |-> <<>>, result |-> ""]
IdleUnload == [pc |-> "idle", name |-> "", len |-> 0, removed |-> <<>>, result |-> ""]

\* Dropping the last Arc of a handle.
DropHandle(hs, o) ==
    IF o = <<>> THEN hs ELSE [hs EXCEPT ![o[1]].state = "dropped"]

\* load_model up to self.models.insert: the backend kind is resolved, and an
\* unsupported kind returns Err(Backend); otherwise the adapter is built and
\* its health check awaited (its outcome is ignored), the handle is built and
\* installed, and the value insert returns, the handle it replaced, is
\* dropped at the end of the statement. Nothing before the insert reads or
\* writes the registry, so the call takes effect at the insert.
LoadInsert(l, cfg) ==
    /\ loads[l].pc = "idle"
    /\ IF SupportedBackend(BackendChoice(cfg))
       THEN LET old == Lookup(models, cfg.name)
            IN  /\ models' = Insert(models, cfg.name, l)
                /\ handles' = [DropHandle(handles, old) EXCEPT ![l] = NewHandle(cfg)]
                /\ loads' = [loads EXCEPT ![l] =
                                [@ EXCEPT !.pc = "len", !.cfg = cfg, !.replaced = old]]
       ELSE /\ loads' = [loads EXCEPT ![l] =
                           [@ EXCEPT !.pc = "done", !.cfg = cfg, !.result = "Backend"]]
            /\ UNCHANGED <<models, handles>>
    /\ UNCHANGED <<metrics, unloads, req, prod, limits>>
    /\ lists' = Observed(lists, models', handles')

\* self.models.len()
LoadLen(l) ==
    /\ loads[l].pc = "len"
    /\ loads' = [loads EXCEPT ![l].pc = "store", ![l].len = MapLen(models)]
    /\ UNCHANGED <<models, handles, metrics, unloads, req, prod, lists, limits>>

\* self.metrics.set_models_loaded(..); Ok(ModelSummary)
LoadStore(l) ==
    /\ loads[l].pc = "store"
    /\ metrics' = [metrics EXCEPT !.models_loaded = loads[l].len]
    /\ loads' = [loads EXCEPT ![l].pc = "done", ![l].result = "Ok"]
    /\ UNCHANGED <<models, handles, unloads, req, prod, lists, limits>>

\* Variant of UnloadRemove that counts a model out of the gauge also when no
\* entry was removed.
UnloadRemoveCountsOut(u, name) ==
    /\ unloads[u].pc = "idle"
    /\ LET h == Lookup(models, name)
       IN  IF h = <<>>
           THEN /\ unloads' = [unloads EXCEPT ![u] =
                                  [@ EXCEPT !.pc = "done", !.name = name, !.result = "NotFound"]]
                /\ metrics' = [metrics EXCEPT !.models_loaded = IF @ > 0 THEN @ - 1 ELSE 0]
                /\ UNCHANGED <<models, handles>>
           ELSE /\ models' = Remove(models, name)
                /\ handles' = [handles EXCEPT ![h[1]].unload_calls = @ + 1]
                /\ unloads' = [unloads EXCEPT ![u] =
                                  [@ EXCEPT !.pc = "len", !.name = name, !.removed = h]]
                /\ UNCHANGED metrics
    /\ UNCHANGED <<loads, req, prod, limits>>
    /\ lists' = Observed(lists, models', handles')

\* unload_model: self.models.remove(name); when an entry was removed,
\* handle.backend.unload().await, otherwise Err(NotFound).
UnloadRemove(u, name) ==
    /\ unloads[u].pc = "idle"
    /\ LET h == Lookup(models, name)
       IN  IF h = <<>>
           THEN /\ unloads' = [unloads EXCEPT ![u] =
                                  [@ EXCEPT !.pc = "done", !.name = name, !.result = "NotFound"]]
                /\ UNCHANGED <<models, handles>>
           ELSE /\ models' = Remove(models, name)
                /\ handles' = [handles EXCEPT ![h[1]].unload_calls = @ + 1]
                /\ unloads' = [unloads EXCEPT ![u] =
                                  [@ EXCEPT !.pc = "len", !.name = name, !.removed = h]]
    /\ UNCHANGED <<metrics, loads, req, prod, limits>>
    /\ lists' = Observed(lists, models', handles')

\* self.models.len()
UnloadLen(u) ==
    /\ unloads[u].pc = "len"
    /\ unloads' = [unloads EXCEPT ![u].pc = "store", ![u].len = MapLen(models)]
    /\ UNCHANGED <<models, handles, metrics, loads, req, prod, lists, limits>>

\* self.metrics.set_models_loaded(..); Ok(()); the removed handle goes out of
\* scope.
UnloadStore(u) ==
    /\ unloads[u].pc = "store"
    /\ metrics' = [metrics EXCEPT !.models_loaded = unloads[u].len]
    /\ handles' = DropHandle(handles, unloads[u].removed)
    /\ unloads' = [unloads EXCEPT ![u].pc = "done", ![u].result = "Ok"]
    /\ UNCHANGED <<models, loads, req, prod, lists, limits>>

(***************************************************************************)
(* LlamaServerBackend::generate_stream: the producer task                  *)
(***************************************************************************)

\* What the backend's HTTP side does for one generation: whether the POST
\* succeeds, and the items the response's bytes_stream yields (a chunk of
\* bytes, or a transport error); after the last item the stream ends.
Chunk(bytes) == [ok |-> TRUE, bytes |-> bytes]
TransportError == [ok |-> FALSE, bytes |-> <<>>]
Script(id, post, items) == [id |-> id, post |-> post, items |-> items]
NoScript == Script("none", FALSE, <<>>)

\* format!("error: request failed: {err}")
RequestFailedText == <<"e", "r", "r", "o", "r", ":", " ", "r", "e", "q", "u", "e", "s", "t", " ", "f", "a", "i", "l", "e", "d">>

IdleProducer ==
    [pc |-> "none", script |-> NoScript, pos |-> 0, buf |-> <<>>, chan |-> <<>>,
     rx |-> FALSE, emitted |-> <<>>, send_failed |-> FALSE, n_predict |-> <<>>]

\* The max_tokens of the RequestBody generate_stream posts.
NPredict(max_tokens, max_context) == MinOf(max_tokens, max_context)

\* Variant of RecordStep in which the [DONE] record does not end the task.
RecordStepDoneGoesOn(buf) ==
    LET idx == Find(buf, Delim)
    IN  IF idx = <<>>
        THEN [more |-> FALSE, buf |-> buf, emit |-> <<>>, stop |-> FALSE]
        ELSE LET trimmed == Trim(SubSeq(buf, 1, idx[1]))
                 rest == SubSeq(buf, idx[1] + 3, Len(buf))
                 part == StripData(trimmed)
             IN  IF trimmed = <<>>
                 THEN [more |-> TRUE, buf |-> rest, emit |-> <<>>, stop |-> FALSE]
                 ELSE IF part = DoneSentinel
                 THEN [more |-> TRUE, buf |-> rest, emit |-> <<Event(<<>>, TRUE)>>, stop |-> FALSE]
                 ELSE IF FromStr(part).ok
                 THEN [more |-> TRUE, buf |-> rest,
                       emit |-> IF TokenText(FromStr(part).v) # <<>> \/ DoneFlag(FromStr(part).v)
                                THEN <<Event(TokenText(FromStr(part).v), DoneFlag(FromStr(part).v))>>
                                ELSE <<>>,
                       stop |-> DoneFlag(FromStr(part).v)]
                 ELSE [more |-> TRUE, buf |-> rest, emit |-> <<Event(part, FALSE)>>, stop |-> FALSE]

\* One turn of the inner loop over buf: more says whether the loop goes on
\* (a delimiter was found), emit is the event handed to tx.send (at most
\* one), stop says whether the task returns after it.
RecordStep(buf) ==
    LET idx == Find(buf, Delim)
    IN  IF idx = <<>>
        THEN [more |-> FALSE, buf |-> buf, emit |-> <<>>, stop |-> FALSE]
        ELSE LET trimmed == Trim(SubSeq(buf, 1, idx[1]))
                 rest == SubSeq(buf, idx[1] + 3, Len(buf))
                 part == StripData(trimmed)
                 v == FromStr(part)
             IN  IF trimmed = <<>>
                 THEN [more |-> TRUE, buf |-> rest, emit |-> <<>>, stop |-> FALSE]
                 ELSE IF part = DoneSentinel
                 THEN [more |-> TRUE, buf |-> rest, emit |-> <<Event(<<>>, TRUE)>>, stop |-> TRUE]
                 ELSE IF v.ok
                 THEN [more |-> TRUE, buf |-> rest,
                       emit |-> IF TokenText(v.v) # <<>> \/ DoneFlag(v.v)
                                THEN <<Event(TokenText(v.v), DoneFlag(v.v))>>
                                ELSE <<>>,
                       stop |-> DoneFlag(v.v)]
                 ELSE [more |-> TRUE, buf |-> rest, emit |-> <<Event(part, FALSE)>>, stop |-> FALSE]

\* Variant of CanSend for a channel without a bound.
CanSendAlways(p) == TRUE

\* tx.send(ev).await can complete: the receiver is gone (Err, at once) or the
\* channel has room.
CanSend(p) == ~p.rx \/ Len(p.chan) < ChannelCapacity

\* let _ = tx.send(ev).await: the event is queued when the receiver lives;
\* the result is discarded.
Send(p, ev) ==
    [p EXCEPT !.emitted = Append(@, ev),
              !.chan = IF p.rx THEN Append(@, ev) ELSE @,
              !.send_failed = @ \/ ~p.rx]

\* The task after a send that failed: the result of tx.send is dropped, so
\* the task goes on as after a send that succeeded.
AfterSend(p, pc) == [p EXCEPT !.pc = pc]

\* Variant of PushChunk that keeps only the newest chunk.
PushChunkReplace(buf, bytes) == FromUtf8Lossy(bytes)

\* buf.push_str(&String::from_utf8_lossy(&bytes))
PushChunk(buf, bytes) == buf \o FromUtf8Lossy(bytes)

\* client.post(url).json(&body).send().await
ProducerPost(r) ==
    /\ prod[r].pc = "post"
    /\ IF prod[r].script.post
       THEN prod' = [prod EXCEPT ![r].pc = "next"]
       ELSE /\ CanSend(prod[r])
            /\ prod' = [prod EXCEPT ![r] =
                           AfterSend(Send(@, Event(RequestFailedText, TRUE)), "done")]
    /\ UNCHANGED <<models, handles, metrics, loads, unloads, req, lists, limits>>

\* stream.next().await: a chunk is decoded onto buf, a transport error or the
\* end of the stream leaves the outer loop.
ProducerNext(r) ==
    /\ prod[r].pc = "next"
    /\ LET p == prod[r]
       IN  IF p.pos < Len(p.script.items) /\ p.script.items[p.pos + 1].ok
           THEN prod' = [prod EXCEPT ![r].pc = "parse", ![r].pos = @ + 1,
                              ![r].buf = PushChunk(@, p.script.items[p.pos + 1].bytes)]
           ELSE prod' = [prod EXCEPT ![r].pc = "final"]
    /\ UNCHANGED <<models, handles, metrics, loads, unloads, req, lists, limits>>

\* One turn of the inner loop, with the send it makes.
ProducerRecord(r) ==
    /\ prod[r].pc = "parse"
    /\ LET p == prod[r]
           s == RecordStep(p.buf)
           q == [p EXCEPT !.buf = s.buf]
       IN  IF ~s.more THEN prod' = [prod EXCEPT ![r].pc = "next"]
           ELSE IF s.emit = <<>> THEN prod' = [prod EXCEPT ![r] = q]
           ELSE /\ CanSend(p)
                /\ prod' = [prod EXCEPT ![r] =
                               AfterSend(Send(q, s.emit[1]), IF s.stop THEN "done" ELSE "parse")]
    /\ UNCHANGED <<models, handles, metrics, loads, unloads, req, lists, limits>>

\* Variant of ProducerFinal that returns without the final event.
ProducerFinalSilent(r) ==
    /\ prod[r].pc = "final"
    /\ prod' = [prod EXCEPT ![r].pc = "done"]
    /\ UNCHANGED <<models, handles, metrics, loads, unloads, req, lists, limits>>

\* After the outer loop: the synthesized final event.
ProducerFinal(r) ==
    /\ prod[r].pc = "final"
    /\ CanSend(prod[r])
    /\ prod' = [prod EXCEPT ![r] = AfterSend(Send(@, Event(<<>>, TRUE)), "done")]
    /\ UNCHANGED <<models, handles, metrics, loads, unloads, req, lists, limits>>

\* The sender is dropped when the task has returned.
TxAlive(p) == p.pc \in {"post", "next", "parse", "final"}

(***************************************************************************)
(* ModelHandle::stream, ModelManager::stream and GuardedStream             *)
(***************************************************************************)

IdleRequest ==
    [pc |-> "idle", mode |-> "", model |-> "", result |-> "", permit |-> <<>>,
     acquired |-> 0, released |-> 0, guard |-> FALSE, client |-> FALSE,
     sse |-> <<>>, failed_forwards |-> 0, content |-> <<>>, tokens |-> 0,
     body_max_tokens |-> <<>>, max_tokens |-> 0]

\* Variant of TryAcquire that hands out a permit whatever is available.
TryAcquireUnchecked(h) == Some([h EXCEPT !.available = @ - 1])

\* Semaphore::try_acquire_owned: Some(the semaphore with one permit less),
\* or None when no permit is available.
TryAcquire(h) ==
    IF h.available > 0 THEN Some([h EXCEPT !.available = @ - 1]) ELSE <<>>

\* Variant of ReleasePermit that returns the permit to the handle now
\* registered under the name of the permit's handle.
ReleasePermitToCurrent(hs, o) ==
    IF o = <<>> THEN hs
    ELSE LET cur == Lookup(models, hs[o[1]].info.name)
         IN  IF cur = <<>> THEN hs ELSE [hs EXCEPT ![cur[1]].available = @ + 1]

\* Variant of ReleasePermit that returns nothing to the semaphore.
ReleasePermitLost(hs, o) == hs

\* Drop of an OwnedSemaphorePermit: the permit returns to its semaphore.
ReleasePermit(hs, o) ==
    IF o = <<>> THEN hs ELSE [hs EXCEPT ![o[1]].available = @ + 1]

\* What ModelBackend::generate_stream may return to ModelHandle::stream. The
\* trait allows Err(ModelError); LlamaServerBackend always returns Ok and
\* reports a failed POST inside the stream.
GenerateStreamOutcomes == {"Ok", "Err"}

\* The trait also allows Ok with a stream that ends without any event, let
\* alone a finished one (no adapter of this repository does that).
EndsAtOnce == "OkEmpty"
EmptyStream == Script("foreign-empty", TRUE, <<>>)

\* Drop of a GuardedStream: the receiver of the hand-off channel goes (what
\* is queued is discarded) and the permit is released.
DropReceiver(p) == [p EXCEPT !.rx = FALSE, !.chan = <<>>]

\* Variant of DropGuard that leaves the gauge alone.
DropGuardForgets(m) == m

\* Drop of the InflightGuard.
DropGuard(m) == [m EXCEPT !.active_requests = @ - 1]

(***************************************************************************)
(* stream_chat and aggregate_chat                                          *)
(***************************************************************************)

RoleChunk == [kind |-> "role", content |-> <<>>, finish_reason |-> <<>>]
DoneRecord == [kind |-> "[DONE]", content |-> <<>>, finish_reason |-> <<>>]

\* Variant of TokenChunk that never sets finish_reason.
TokenChunkNoReason(ev) ==
    [kind |-> "token",
     content |-> IF ev.token = <<>> THEN <<>> ELSE Some(ev.token),
     finish_reason |-> <<>>]

\* The chunk stream_chat builds from a TokenEvent.
TokenChunk(ev) ==
    [kind |-> "token",
     content |-> IF ev.token = <<>> THEN <<>> ELSE Some(ev.token),
     finish_reason |-> IF ev.finished THEN Some("stop") ELSE <<>>]

\* let _ = tx.send(chunk).await on the SSE channel: the chunk reaches the
\* client while it is connected; the result is discarded.
SseSend(q, chunk) ==
    IF q.client THEN [q EXCEPT !.sse = Append(@, chunk)] ELSE q

\* Variant of BuildParams that takes the caller's max_tokens as it is.
BuildParamsUncapped(lim, max_tokens) ==
    [max_tokens |-> UnwrapOr(max_tokens, lim.max_tokens)]

\* build_params: the caller's max_tokens, or the configured one, capped at
\* the configured one.
BuildParams(lim, max_tokens) ==
    [max_tokens |-> MinOf(UnwrapOr(max_tokens, lim.max_tokens), lim.max_tokens)]

\* chat_completions or completions on a body with the given max_tokens:
\* build_params, then stream_chat or aggregate_chat up to
\* state.metrics.inc_request(); state.metrics.guard()
EnterWith(r, mode, name, max_tokens) ==
    /\ req[r].pc = "idle"
    /\ req' = [req EXCEPT ![r] =
                  [@ EXCEPT !.pc = "entered", !.mode = mode, !.model = name, !.guard = TRUE,
                            !.body_max_tokens = max_tokens,
                            !.max_tokens = BuildParams(limits, max_tokens).max_tokens]]
    /\ metrics' = [metrics EXCEPT !.requests_total = @ + 1, !.active_requests = @ + 1]
    /\ UNCHANGED <<models, handles, loads, unloads, prod, lists, limits>>

\* A request whose body gives no max_tokens.
Enter(r, mode, name) == EnterWith(r, mode, name, <<>>)

\* Variant of Reject in which the request waits and asks again.
RejectQueued(r, error) ==
    /\ req' = [req EXCEPT ![r] = [@ EXCEPT !.result = error]]
    /\ metrics' = metrics

\* The handler returns an error: the InflightGuard is dropped.
Reject(r, error) ==
    /\ req' = [req EXCEPT ![r] = [@ EXCEPT !.pc = "done", !.result = error, !.guard = FALSE]]
    /\ metrics' = DropGuard(metrics)

\* The HTTP status of what a handler returns: 200 for the JSON response and
\* for the SSE response, ApiError::into_response for an error.
StatusOf(result) ==
    CASE result = "Json" -> 200
      [] result = "Sse" -> 200
      [] result = "NotFound" -> 404
      [] result = "Overloaded" -> 429
      [] result = "Backend" -> 500
      [] OTHER -> 0

\* state.models.stream(&model, params).await?, and on Ok the spawn of the
\* drain task (stream_chat) or the start of the drain (aggregate_chat).
Admit(r, script, outcome) ==
    /\ req[r].pc = "entered"
    /\ LET h == Lookup(models, req[r].model)
           got == TryAcquire(handles[h[1]])
       IN  IF h = <<>>
           THEN Reject(r, "NotFound") /\ UNCHANGED <<handles, prod>>
           ELSE IF got = <<>>
           THEN Reject(r, "Overloaded") /\ UNCHANGED <<handles, prod>>
           ELSE IF outcome = "Err"
           THEN \* the permit is dropped by the ? of ModelHandle::stream
                /\ handles' = ReleasePermit([handles EXCEPT ![h[1]] = got[1]], h)
                /\ req' = [req EXCEPT ![r] =
                              [@ EXCEPT !.pc = "done", !.result = "Backend", !.guard = FALSE,
                                        !.acquired = @ + 1, !.released = @ + 1]]
                /\ metrics' = DropGuard(metrics)
                /\ UNCHANGED prod
           ELSE /\ handles' = [handles EXCEPT ![h[1]] = got[1]]
                /\ prod' = [prod EXCEPT ![r] =
                               IF outcome = EndsAtOnce
                               THEN [IdleProducer EXCEPT !.pc = "done", !.script = EmptyStream,
                                                         !.rx = TRUE]
                               ELSE [IdleProducer EXCEPT
                                        !.pc = "post", !.script = script, !.rx = TRUE,
                                        !.n_predict = Some(NPredict(req[r].max_tokens,
                                                                    handles[h[1]].max_context))]]
                /\ req' = [req EXCEPT ![r] =
                              IF req[r].mode = "incremental"
                              THEN [@ EXCEPT !.pc = "role", !.result = "Sse", !.client = TRUE,
                                             !.permit = h, !.acquired = @ + 1]
                              ELSE [@ EXCEPT !.pc = "agg", !.client = TRUE,
                                             !.permit = h, !.acquired = @ + 1]]
                /\ UNCHANGED metrics
    /\ UNCHANGED <<models, loads, unloads, lists, limits>>

\* Variant of Conclude in which the GuardedStream is kept alive (leaked).
ConcludeLeak(r, q, result) ==
    /\ req' = [req EXCEPT ![r] = [q EXCEPT !.pc = "done", !.result = result, !.guard = FALSE]]
    /\ metrics' = DropGuard([metrics EXCEPT !.tokens_total = @ + q.tokens])
    /\ UNCHANGED <<handles, prod>>

\* The end of a drain: add_tokens, then the GuardedStream and the
\* InflightGuard go out of scope.
Conclude(r, q, result) ==
    /\ req' = [req EXCEPT ![r] =
                  [q EXCEPT !.pc = "done", !.result = result, !.guard = FALSE,
                            !.permit = <<>>, !.released = @ + 1]]
    /\ prod' = [prod EXCEPT ![r] = DropReceiver(@)]
    /\ handles' = ReleasePermit(handles, req[r].permit)
    /\ metrics' = DropGuard([metrics EXCEPT !.tokens_total = @ + q.tokens])

\* Variant of DrainRole in which the stream stays behind in the handler and
\* is dropped when the handler returns.
DrainRoleDropsStream(r) ==
    /\ req[r].pc = "role"
    /\ req' = [req EXCEPT ![r] =
                  [SseSend(@, RoleChunk) EXCEPT !.pc = "drain", !.permit = <<>>,
                                                !.released = @ + 1]]
    /\ handles' = ReleasePermit(handles, req[r].permit)
    /\ UNCHANGED <<models, metrics, loads, unloads, prod, lists, limits>>

\* The drain task of stream_chat sends the role chunk.
DrainRole(r) ==
    /\ req[r].pc = "role"
    /\ req' = [req EXCEPT ![r] = [SseSend(@, RoleChunk) EXCEPT !.pc = "drain"]]
    /\ UNCHANGED <<models, handles, metrics, loads, unloads, prod, lists, limits>>

\* Whether the drain loop of stream_chat goes on after forwarding a token.
DrainContinues(q, ev) == ~ev.finished

\* One turn of while let Some(token) = stream.next().await of stream_chat;
\* when the loop ends, the [DONE] record and the end of the task.
DrainNext(r) ==
    /\ req[r].pc = "drain"
    /\ IF prod[r].chan # <<>>
       THEN LET ev == Head(prod[r].chan)
                q == [SseSend(req[r], TokenChunk(ev)) EXCEPT
                         !.tokens = @ + 1,
                         !.failed_forwards = IF req[r].client THEN @ ELSE @ + 1]
            IN  IF DrainContinues(req[r], ev)
                THEN /\ req' = [req EXCEPT ![r] = q]
                     /\ prod' = [prod EXCEPT ![r].chan = Tail(@)]
                     /\ UNCHANGED <<handles, metrics>>
                ELSE Conclude(r, SseSend(q, DoneRecord), "Sse")
       ELSE /\ ~TxAlive(prod[r])
            /\ Conclude(r, SseSend(req[r], DoneRecord), "Sse")
    /\ UNCHANGED <<models, loads, unloads, lists, limits>>

\* Variant of AggNext that also appends the text of the finished event.
AggNextAppendsLast(r) ==
    /\ req[r].pc = "agg"
    /\ IF prod[r].chan # <<>>
       THEN LET ev == Head(prod[r].chan)
                q == [req[r] EXCEPT !.tokens = @ + 1, !.content = @ \o ev.token]
            IN  IF ev.finished
                THEN Conclude(r, q, "Json")
                ELSE /\ req' = [req EXCEPT ![r] = q]
                     /\ prod' = [prod EXCEPT ![r].chan = Tail(@)]
                     /\ UNCHANGED <<handles, metrics>>
       ELSE /\ ~TxAlive(prod[r])
            /\ Conclude(r, req[r], "Json")
    /\ UNCHANGED <<models, loads, unloads, lists, limits>>

\* The choice of the ChatCompletionResponse aggregate_chat returns.
AggregateChoice(q) ==
    [role |-> "assistant", content |-> q.content, finish_reason |-> "stop"]

\* One turn of the drain loop of aggregate_chat; when the loop ends, the
\* JSON response.
AggNext(r) ==
    /\ req[r].pc = "agg"
    /\ IF prod[r].chan # <<>>
       THEN LET ev == Head(prod[r].chan)
                q == [req[r] EXCEPT !.tokens = @ + 1]
            IN  IF ev.finished
                THEN Conclude(r, q, "Json")
                ELSE /\ req' = [req EXCEPT ![r] = [q EXCEPT !.content = @ \o ev.token]]
                     /\ prod' = [prod EXCEPT ![r].chan = Tail(@)]
                     /\ UNCHANGED <<handles, metrics>>
       ELSE /\ ~TxAlive(prod[r])
            /\ Conclude(r, req[r], "Json")
    /\ UNCHANGED <<models, loads, unloads, lists, limits>>

\* The client of an aggregate request goes away while the handler awaits
\* the next event: the handler's future is dropped, and with it the
\* GuardedStream and the InflightGuard.
AggCancel(r) ==
    /\ req[r].pc = "agg"
    /\ req' = [req EXCEPT ![r] =
                  [@ EXCEPT !.pc = "done", !.result = "Cancelled", !.client = FALSE,
                            !.guard = FALSE, !.permit = <<>>, !.released = @ + 1]]
    /\ prod' = [prod EXCEPT ![r] = DropReceiver(@)]
    /\ handles' = ReleasePermit(handles, req[r].permit)
    /\ metrics' = DropGuard(metrics)
    /\ UNCHANGED <<models, loads, unloads, lists, limits>>

\* The client of an incremental request goes away: the receiver of the SSE
\* channel is dropped.
ClientDisconnect(r) ==
    /\ req[r].pc \in {"role", "drain"}
    /\ req[r].client
    /\ req' = [req EXCEPT ![r].client = FALSE]
    /\ UNCHANGED <<models, handles, metrics, loads, unloads, prod, lists, limits>>

(***************************************************************************)
(* Backend response streams                                                *)
(***************************************************************************)

\* The bytes of  x\n\n  (a record that is no JSON).
RecX ==
    <<"x", "\n", "\n">>
\* The bytes of  y\n\n
RecY ==
    <<"y", "\n", "\n">>
\* The bytes of  [DONE]\n\n
RecDone ==
    <<"[", "D", "O", "N", "E", "]", "\n", "\n">>
\* The bytes of  data: [DONE]\n\n
RecDataDone ==
    <<"d", "a", "t", "a", ":", " ", "[", "D", "O", "N", "E", "]", "\n", "\n">>
\* The bytes of  data: {"choices":[{"delta":{"content":"Hi"}}]}\n\n
RecHi ==
    <<"d", "a", "t", "a", ":", " ", "{", "\"", "c", "h", "o", "i", "c", "e", "s", "\"", ":",
      "[", "{", "\"", "d", "e", "l", "t", "a", "\"", ":", "{", "\"", "c", "o", "n", "t", "e",
      "n", "t", "\"", ":", "\"", "H", "i", "\"", "}", "}", "]", "}", "\n", "\n">>
\* The bytes of  {"content":"a"}\n\n
RecContentA ==
    <<"{", "\"", "c", "o", "n", "t", "e", "n", "t", "\"", ":", "\"", "a", "\"", "}", "\n",
      "\n">>
\* The bytes of  {"stop":true}\n\n
RecStop ==
    <<"{", "\"", "s", "t", "o", "p", "\"", ":", "t", "r", "u", "e", "}", "\n", "\n">>
\* The bytes of  data: {"choices":[{"delta":{"content":"b"},"finish_reason":"stop"}]}\n\n
RecFinishB ==
    <<"d", "a", "t", "a", ":", " ", "{", "\"", "c", "h", "o", "i", "c", "e", "s", "\"", ":",
      "[", "{", "\"", "d", "e", "l", "t", "a", "\"", ":", "{", "\"", "c", "o", "n", "t", "e",
      "n", "t", "\"", ":", "\"", "b", "\"", "}", ",", "\"", "f", "i", "n", "i", "s", "h", "_",
      "r", "e", "a", "s", "o", "n", "\"", ":", "\"", "s", "t", "o", "p", "\"", "}", "]", "}",
      "\n", "\n">>
\* The bytes of a record cut short:  data: {"con
PartialRec ==
    <<"d", "a", "t", "a", ":", " ", "{", "\"", "c", "o", "n">>

\* The stream of the split test: the Hi record, then the [DONE] record.
HiStream == RecHi \o RecDataDone

\* HiStream delivered as two chunks, split after k bytes.
SplitScript(k) ==
    Script("split", TRUE,
           <<Chunk(SubSeq(HiStream, 1, k)), Chunk(SubSeq(HiStream, k + 1, Len(HiStream)))>>)

SplitScripts == {SplitScript(k) : k \in 1 .. Len(HiStream) - 1}

\* The bytes of  {"content":"\u00e9"}\n\n  with the e-acute written in UTF-8
\* (two bytes).
RecAcute ==
    <<"{", "\"", "c", "o", "n", "t", "e", "n", "t", "\"", ":", "\"", "xC3", "xA9", "\"", "}",
      "\n", "\n">>

\* The e-acute record, then the [DONE] record.
AcuteStream == RecAcute \o RecDone

\* AcuteStream delivered as two chunks, split after k bytes.
AcuteScript(k) ==
    Script("acute", TRUE,
           <<Chunk(SubSeq(AcuteStream, 1, k)), Chunk(SubSeq(AcuteStream, k + 1, Len(AcuteStream)))>>)

AcuteScripts == {AcuteScript(k) : k \in 1 .. Len(AcuteStream) - 1}

\* Streams that end, or fail, with no [DONE] record and no terminal JSON
\* record.
NoTerminalScripts ==
    { Script("end-empty", TRUE, <<>>),
      Script("end-after-x", TRUE, <<Chunk(RecX)>>),
      Script("error-first", TRUE, <<TransportError>>),
      Script("error-after-x", TRUE, <<Chunk(RecX), TransportError, Chunk(RecDone)>>),
      Script("end-in-record", TRUE, <<Chunk(RecContentA \o RecX), Chunk(PartialRec)>>) }

\* Streams with a terminal record, some with records after it.
TerminalScripts ==
    { Script("done", TRUE, <<Chunk(RecX), Chunk(RecDone)>>),
      Script("done-then-more", TRUE, <<Chunk(RecDone \o RecX), Chunk(RecY)>>),
      Script("stop-then-more", TRUE, <<Chunk(RecContentA \o RecStop \o RecX)>>),
      Script("finish-then-done", TRUE, <<Chunk(RecFinishB), Chunk(RecDataDone)>>),
      Script("finish-then-more", TRUE, <<Chunk(RecFinishB \o RecX), Chunk(RecY)>>) }

\* The POST itself fails.
FailedPostScripts == {Script("post-fails", FALSE, <<>>)}

ParseScripts ==
    SplitScripts \cup AcuteScripts \cup NoTerminalScripts \cup TerminalScripts
        \cup FailedPostScripts

\* The streams of the admission model: a generation that ends with [DONE],
\* and one cut by a transport error.
ServeScripts ==
    { Script("done", TRUE, <<Chunk(RecDone)>>),
      Script("error-first", TRUE, <<TransportError>>) }

Modes == {"incremental", "aggregate"}

\* The texts of a response stream with more records than the hand-off
\* channel holds, each record one letter (no JSON, so forwarded as it is).
FlowLetters ==
    <<"a", "b", "c", "d", "e", "f", "g", "h", "i", "j", "k", "l", "m", "n", "o", "p", "q",
      "r", "s", "t", "u", "v", "w", "x", "y", "z", "A", "B", "C", "D", "E", "F", "G", "H",
      "I", "J">>

\* The bytes of the records of FlowLetters from the i-th to the j-th, each
\* followed by its delimiter.
FlowBytes(i, j) ==
    [k \in 1 .. 3 * (j - i + 1) |->
        IF k % 3 = 1 THEN FlowLetters[i + (k - 1) \div 3] ELSE "\n"]

\* The long stream in one chunk, ended by the end of the response; and in two
\* chunks, ended by a [DONE] record.
FlowScripts ==
    { Script("flow-one", TRUE, <<Chunk(FlowBytes(1, Len(FlowLetters)))>>),
      Script("flow-two", TRUE,
             <<Chunk(FlowBytes(1, 20)),
               Chunk(FlowBytes(21, Len(FlowLetters)) \o RecDone)>>) }

(***************************************************************************)
(* JSON records of the backend, written out field by field                 *)
(***************************************************************************)

Quote(str) == <<"\"">> \o str \o <<"\"">>
Member(key, val) == Quote(key) \o <<":">> \o val

\* The members of an object, the absent ones (empty) left out.
RECURSIVE Join(_)
Join(frags) ==
    IF frags = <<>> THEN <<>>
    ELSE LET rest == Join(Tail(frags))
         IN  IF Head(frags) = <<>> THEN rest
             ELSE IF rest = <<>> THEN Head(frags)
             ELSE Head(frags) \o <<",">> \o rest

Obj(frags) == <<"{">> \o Join(frags) \o <<"}">>

\* How a text field occurs in a record: not at all, as a string, or as a
\* number.
FieldKinds == {"absent", "str", "num"}
\* How a completion flag occurs: not at all, or as a boolean.
FlagKinds == {"absent", "false", "true"}
\* How choices[0].finish_reason occurs.
ReasonKinds == {"absent", "stop", "length"}

FieldMember(key, kind, str) ==
    IF kind = "absent" THEN <<>>
    ELSE Member(key, IF kind = "str" THEN Quote(str) ELSE <<"5">>)

FlagMember(key, kind) ==
    IF kind = "absent" THEN <<>>
    ELSE Member(key, IF kind = "true" THEN <<"t", "r", "u", "e">>
                                      ELSE <<"f", "a", "l", "s", "e">>)

ReasonMember(kind) ==
    IF kind = "absent" THEN <<>>
    ELSE Member(K_finish_reason,
                Quote(IF kind = "stop" THEN K_stop ELSE <<"l", "e", "n", "g", "t", "h">>))

\* "choices":[{..}] with the members given, or nothing when there are none.
ChoicesMember(frags) ==
    IF Join(frags) = <<>> THEN <<>>
    ELSE Member(K_choices, <<"[">> \o Obj(frags) \o <<"]">>)

\* A record with token.text "a", content "b", text "c",
\* choices[0].delta.content "d" and choices[0].text "e", each occurring as
\* its kind says.
TextRecord(t, c, x, d, e) ==
    Obj(<< IF t = "absent" THEN <<>>
           ELSE Member(K_token, Obj(<<FieldMember(K_text, t, <<"a">>)>>)),
           FieldMember(K_content, c, <<"b">>),
           FieldMember(K_text, x, <<"c">>),
           ChoicesMember(<< IF d = "absent" THEN <<>>
                            ELSE Member(K_delta, Obj(<<FieldMember(K_content, d, <<"d">>)>>)),
                            FieldMember(K_text, e, <<"e">>) >>) >>)

\* A record with content "t" and the flags done, stop, completed and
\* choices[0].finish_reason, each occurring as its kind says.
FlagRecord(dn, st, cp, fr) ==
    Obj(<< FieldMember(K_content, "str", <<"t">>),
           FlagMember(K_done, dn),
           FlagMember(K_stop, st),
           FlagMember(K_completed, cp),
           ChoicesMember(<<ReasonMember(fr)>>) >>)

\* The record alone in the response stream.
TextScript(t, c, x, d, e) ==
    Script("text", TRUE, <<Chunk(TextRecord(t, c, x, d, e) \o Delim)>>)

\* The record, then the record x, in one chunk.
FlagScript(dn, st, cp, fr) ==
    Script("flags", TRUE, <<Chunk(FlagRecord(dn, st, cp, fr) \o Delim \o RecX)>>)

TextScripts ==
    {TextScript(t, c, x, d, e) : t \in FieldKinds, c \in FieldKinds, x \in FieldKinds,
                                d \in FieldKinds, e \in FieldKinds}

FlagScripts ==
    {FlagScript(dn, st, cp, fr) : dn \in FlagKinds, st \in FlagKinds, cp \in FlagKinds,
                                 fr \in ReasonKinds}

\* Records that are no JSON and not the [DONE] sentinel, each with what is
\* left of it once it is trimmed and an optional data: prefix is taken off.
RawRecords ==
    {
      [rec |-> <<"x">>,
       part |-> <<"x">>],
      [rec |-> <<" ", " ", "x", " ", "y", " ", "\t">>,
       part |-> <<"x", " ", "y">>],
      [rec |-> <<"d", "a", "t", "a", ":", " ", "o", "o", "p", "s">>,
       part |-> <<"o", "o", "p", "s">>],
      [rec |-> <<"d", "a", "t", "a", ":">>,
       part |-> <<>>],
      [rec |-> <<" ", "d", "a", "t", "a", ":", "x">>,
       part |-> <<"x">>],
      [rec |-> <<"D", "A", "T", "A", ":", " ", "x">>,
       part |-> <<"D", "A", "T", "A", ":", " ", "x">>],
      [rec |-> <<"{", "b", "a", "d">>,
       part |-> <<"{", "b", "a", "d">>],
      [rec |-> <<"d", "a", "t", "a", ":", " ", "{", "\"", "a", "\"", ":", "}">>,
       part |-> <<"{", "\"", "a", "\"", ":", "}">>],
      [rec |-> <<"{", "}", "x">>,
       part |-> <<"{", "}", "x">>],
      [rec |-> <<"[", "D", "O", "N", "E">>,
       part |-> <<"[", "D", "O", "N", "E">>],
      [rec |-> <<"x", "\n", "y">>,
       part |-> <<"x", "\n", "y">>] }

\* The record, then the record y, in one chunk.
RawScript(raw) == Script("raw", TRUE, <<Chunk(raw.rec \o Delim \o RecY)>>)

RawScripts == {RawScript(raw) : raw \in RawRecords}

RecordScripts == TextScripts \cup FlagScripts \cup RawScripts

(***************************************************************************)
(* Specifications                                                          *)
(***************************************************************************)

\* The server after start-up: the configured model is loaded, nothing is in
\* flight.
InitWith(cfgs, maxTokens) ==
    /\ \E cfg \in cfgs :
          /\ models = {[name |-> cfg.name, handle |-> StartupHandle]}
          /\ handles = [h \in HandleIds |->
                           IF h = StartupHandle THEN NewHandle(cfg) ELSE FreshHandle]
    /\ \E n \in maxTokens : limits = [max_tokens |-> n]
    /\ metrics = [requests_total |-> 0, tokens_total |-> 0, active_requests |-> 0,
                  models_loaded |-> 1]
    /\ loads = [l \in LoadCalls |-> IdleLoad]
    /\ unloads = [u \in UnloadCalls |-> IdleUnload]
    /\ req = [r \in Requests |-> IdleRequest]
    /\ prod = [r \in Requests |-> IdleProducer]
    /\ lists = [c \in ListCalls |-> IdleList]

\* The server started with the default limits.
Init == InitWith(StartupConfigs, {DefaultMaxTokens})

Producer(r) ==
    \/ ProducerPost(r)
    \/ ProducerNext(r)
    \/ ProducerRecord(r)
    \/ ProducerFinal(r)

Assembler(r) ==
    \/ DrainRole(r)
    \/ DrainNext(r)
    \/ AggNext(r)

Loader(l) ==
    \/ LoadLen(l)
    \/ LoadStore(l)

Unloader(u) ==
    \/ UnloadLen(u)
    \/ UnloadStore(u)

\* The model the requests of the admission model name.
ServeModels == {"a", "b"}
\* Admission and serving: requests against the registry built at start-up.
Next ==
    \/ \E r \in Requests, mode \in Modes, name \in ServeModels : Enter(r, mode, name)
    \/ \E r \in Requests, s \in ServeScripts, o \in GenerateStreamOutcomes : Admit(r, s, o)
    \/ \E r \in Requests : Producer(r)
    \/ \E r \in Requests : Assembler(r)
    \/ \E r \in Requests : AggCancel(r)
    \/ \E r \in Requests : ClientDisconnect(r)

Spec == Init /\ [][Next]_vars

\* The request of the parsing model.
ParseRequests == {1}
\* What generate_stream returns in the parsing model.
ParseOutcomes == GenerateStreamOutcomes \cup {EndsAtOnce}

\* The streaming adapter and the assemblers on one request, over the
\* response streams of ParseScripts.
NextParse ==
    \/ \E r \in ParseRequests, mode \in Modes : Enter(r, mode, "a")
    \/ \E r \in ParseRequests, s \in ParseScripts, o \in ParseOutcomes : Admit(r, s, o)
    \/ \E r \in ParseRequests : Producer(r)
    \/ \E r \in ParseRequests : Assembler(r)
    \/ \E r \in ParseRequests : AggCancel(r)
    \/ \E r \in ParseRequests : ClientDisconnect(r)

SpecParse == Init /\ [][NextParse]_vars

\* list_models beside concurrent load_model and unload_model calls.
NextList ==
    \/ \E l \in LoadCalls, cfg \in LoadConfigs : LoadInsert(l, cfg)
    \/ \E l \in LoadCalls : Loader(l)
    \/ \E u \in UnloadCalls, name \in ModelNames : UnloadRemove(u, name)
    \/ \E u \in UnloadCalls : Unloader(u)
    \/ \E c \in ListCalls, layout \in ShardLayouts : ListBegin(c, layout)
    \/ \E c \in ListCalls : ListShard(c)

SpecList == Init /\ [][NextList]_vars

\* The request of the record model.
RecordRequests == {1}

\* The streaming adapter and the assemblers on one request, over response
\* streams that carry one JSON record of RecordScripts.
NextRecord ==
    \/ \E r \in RecordRequests, mode \in Modes : Enter(r, mode, "a")
    \/ \E r \in RecordRequests, s \in RecordScripts : Admit(r, s, "Ok")
    \/ \E r \in RecordRequests : Producer(r)
    \/ \E r \in RecordRequests : Assembler(r)

SpecRecord == Init /\ [][NextRecord]_vars

\* The registry under concurrent load_model and unload_model calls.
NextRegistry ==
    \/ \E l \in LoadCalls, cfg \in LoadConfigs : LoadInsert(l, cfg)
    \/ \E l \in LoadCalls : Loader(l)
    \/ \E u \in UnloadCalls, name \in ModelNames : UnloadRemove(u, name)
    \/ \E u \in UnloadCalls : Unloader(u)

SpecRegistry == Init /\ [][NextRegistry]_vars

\* The requests, the load_model call and the model name of the reload
\* model.
ReloadRequests == {1, 2}
ReloadLoads == {1}

\* The bodies of the load that replaces "a".
ReloadConfigs ==
    { MkConfig("a", Some("gpu"), Some("q4"), <<>>, <<>>),
      MkConfig("a", <<>>, <<>>, Some(1), Some("llm")) }

\* Generations on "a" while "a" is reloaded or unloaded.
NextReload ==
    \/ \E r \in ReloadRequests, mode \in Modes : Enter(r, mode, "a")
    \/ \E r \in ReloadRequests, s \in ServeScripts : Admit(r, s, "Ok")
    \/ \E r \in ReloadRequests : Producer(r)
    \/ \E r \in ReloadRequests : Assembler(r)
    \/ \E l \in ReloadLoads, cfg \in ReloadConfigs : LoadInsert(l, cfg)
    \/ \E l \in ReloadLoads : Loader(l)
    \/ \E u \in UnloadCalls : UnloadRemove(u, "a")
    \/ \E u \in UnloadCalls : Unloader(u)

SpecReload == Init /\ [][NextReload]_vars

\* The request of the flow model.
FlowRequests == {1}

\* One generation over a long response stream, its consumer connected to the
\* end and taking events at any pace.
NextFlow ==
    \/ \E r \in FlowRequests, mode \in Modes : Enter(r, mode, "a")
    \/ \E r \in FlowRequests, s \in FlowScripts : Admit(r, s, "Ok")
    \/ \E r \in FlowRequests : Producer(r)
    \/ \E r \in FlowRequests : Assembler(r)

SpecFlow == Init /\ [][NextFlow]_vars

\* The request of the parameter model.
ParamRequests == {1}

\* The model of the parameter model, with a context length of its own or
\* without.
ParamConfigs ==
    { MkConfig("a", <<>>, <<>>, <<>>, Some("llama-server")),
      WithContext(MkConfig("a", <<>>, <<>>, <<>>, Some("llama-server")), 256),
      WithContext(MkConfig("a", <<>>, <<>>, <<>>, Some("llama-server")), 1000) }

\* The limits.max_tokens of the configuration file.
ParamLimits == {DefaultMaxTokens, 128, 4096}

\* The max_tokens of a request body: absent, or a number of the caller's
\* choosing.
RequestedTokens ==
    {<<>>, Some(0), Some(1), Some(128), Some(512), Some(513), Some(5000), Some(1000000)}

InitParams == InitWith(ParamConfigs, ParamLimits)

\* Requests with a max_tokens of the caller's choosing, on servers with
\* different limits and context lengths.
NextParams ==
    \/ \E r \in ParamRequests, mode \in Modes, mt \in RequestedTokens :
          EnterWith(r, mode, "a", mt)
    \/ \E r \in ParamRequests, s \in ServeScripts, o \in GenerateStreamOutcomes : Admit(r, s, o)
    \/ \E r \in ParamRequests : Producer(r)
    \/ \E r \in ParamRequests : Assembler(r)

SpecParams == InitParams /\ [][NextParams]_vars

(***************************************************************************)
(* Properties                                                              *)
(***************************************************************************)

\* The producer task of a generation can take a step: it has not returned
\* and is not waiting for room in a full channel.
ProducerCanStep(p) == TxAlive(p) /\ (p.pc = "next" \/ CanSend(p))

\* The drain of request r can take a step: it sends the role chunk, or its
\* stream.next() can return (an event is queued, or the sender is gone).
DrainCanStep(r) ==
    \/ req[r].pc = "role"
    \/ req[r].pc \in {"drain", "agg"} /\ (prod[r].chan # <<>> \/ ~TxAlive(prod[r]))

\* The requests that hold a permit of handle h.
Holders(h) == {r \in Requests : req[r].permit = Some(h)}

\* C1: at every instant, for every ModelHandle, the number of outstanding
\* permits (generations admitted by ModelHandle::stream whose GuardedStream
\* is not yet dropped) is at most the handle's max_concurrent.
C1_PermitsWithinLimit ==
    \A h \in HandleIds : Cardinality(Holders(h)) <= handles[h].info.max_concurrent

\* A handle at its limit while one more request is about to ask for a permit.
C1_Witness ==
    \E h \in HandleIds, r \in Requests :
        /\ handles[h].state = "live"
        /\ Cardinality(Holders(h)) = handles[h].info.max_concurrent
        /\ req[r].pc = "entered"
        /\ Lookup(models, req[r].model) = Some(h)

\* The step in which request r calls ModelManager::stream on a registered
\* model.
AsksHandle(r, h) ==
    /\ req[r].pc = "entered"
    /\ req'[r].pc # "entered"
    /\ Lookup(models, req[r].model) = Some(h)

\* C2: a stream request on a handle fails with Overloaded exactly when
\* max_concurrent generations of that handle are in flight at that moment;
\* with fewer in flight (so also after one of N has concluded and its stream
\* is dropped) the request gets its permit.
C2_OverloadedIffFull ==
    [][\A r \in Requests, h \in HandleIds :
          AsksHandle(r, h) =>
              IF Cardinality(Holders(h)) = handles[h].info.max_concurrent
              THEN req'[r].result = "Overloaded" /\ req'[r].acquired = 0
              ELSE req'[r].result # "Overloaded" /\ req'[r].acquired = 1]_vars

\* One request was refused with Overloaded while another held the only
\* permit, and that other has now concluded.
C2_Witness ==
    \E r1, r2 \in Requests :
        /\ req[r1].result = "Overloaded"
        /\ req[r2].acquired = 1
        /\ req[r2].released = 1
        /\ req[r2].pc = "done"

\* C3: every admitted generation returns its slot exactly once: never twice,
\* the slot is back when its handler or drain task has ended (normal finish,
\* Err of generate_stream, failed backend stream, client gone in either
\* mode), the semaphore's count agrees with the permits held, and a
\* generation that still holds its slot is never stuck: its drain or its
\* producer can take a step.
C3_ReleasedExactlyOnce ==
    /\ \A r \in Requests :
          /\ req[r].released <= req[r].acquired
          /\ req[r].acquired <= 1
          /\ (req[r].permit # <<>>) <=> (req[r].acquired = 1 /\ req[r].released = 0)
          /\ req[r].pc = "done" => req[r].released = req[r].acquired
          /\ req[r].permit # <<>> => (DrainCanStep(r) \/ ProducerCanStep(prod[r]))
    /\ \A h \in HandleIds :
          handles[h].state = "live" =>
              handles[h].available + Cardinality(Holders(h)) = handles[h].info.max_concurrent

\* An incremental generation whose client went away before the finished
\* event was forwarded has ended and returned its slot, and so has an
\* aggregate one that was cancelled.
C3_Witness ==
    \E r1, r2 \in Requests :
        /\ req[r1].mode = "incremental" /\ req[r1].pc = "done"
        /\ req[r1].failed_forwards >= 1 /\ req[r1].released = 1
        /\ req[r2].result = "Cancelled" /\ req[r2].released = 1

\* C4: of the events one producer hands to the channel, at most one has
\* finished = true, and it is the last.
C4_FinishedIsLast ==
    \A r \in Requests :
        \A i \in 1 .. Len(prod[r].emitted) :
            prod[r].emitted[i].finished => i = Len(prod[r].emitted)

\* A stream with records after its [DONE] record was consumed to the end of
\* the task, and one with a failed POST.
C4_Witness ==
    \E r \in Requests :
        /\ prod[r].script.id = "done-then-more"
        /\ prod[r].pc = "done"
        /\ prod[r].emitted = <<Event(<<>>, TRUE)>>

HiEvents == <<Event(<<"H", "i">>, FALSE), Event(<<>>, TRUE)>>

\* C5: the Hi record followed by the [DONE] record, delivered as two chunks
\* split at any byte offset, yields exactly (Hi, false) then ("", true).
C5_SplitAnywhere ==
    \A r \in Requests :
        prod[r].script.id = "split" =>
            /\ Len(prod[r].emitted) <= 2
            /\ prod[r].emitted = SubSeq(HiEvents, 1, Len(prod[r].emitted))
            /\ prod[r].pc = "done" => prod[r].emitted = HiEvents

\* The split falls between the two newlines of the first delimiter.
C5_Witness ==
    \E r \in Requests :
        /\ prod[r].script.id = "split"
        /\ Len(prod[r].script.items[1].bytes) = Len(RecHi) - 1
        /\ prod[r].pc = "done"
        /\ prod[r].emitted = HiEvents

NoTerminalIds == {s.id : s \in NoTerminalScripts}

Finished(ev) == ev.finished

\* The producer of r has ended with exactly one finished event, empty, as
\* the last event.
EndedWithSynthesized(r) ==
    /\ prod[r].pc = "done"
    /\ prod[r].emitted # <<>>
    /\ prod[r].emitted[Len(prod[r].emitted)] = Event(<<>>, TRUE)
    /\ Len(SelectSeq(prod[r].emitted, Finished)) = 1

\* How far the producer task is from its end: the items of the response
\* stream not yet read, then its position in the loops, then the length of
\* buf.
PcRank(pc) ==
    CASE pc = "post" -> 4
      [] pc = "parse" -> 3
      [] pc = "next" -> 2
      [] pc = "final" -> 1
      [] OTHER -> 0

Measure(p) == <<Len(p.script.items) - p.pos, PcRank(p.pc), Len(p.buf)>>

LexLess(a, b) ==
    \/ a[1] < b[1]
    \/ a[1] = b[1] /\ a[2] < b[2]
    \/ a[1] = b[1] /\ a[2] = b[2] /\ a[3] < b[3]

\* C6: when the response stream ends or fails with no [DONE] and no terminal
\* JSON record, the producer ends having emitted exactly one finished event,
\* with empty text, as its last event; and it does end: until then it is
\* never blocked and each of its steps brings it nearer to its end.
C6_SynthesizedFinish ==
    /\ [](\A r \in ParseRequests :
             prod[r].script.id \in NoTerminalIds =>
                 IF prod[r].pc = "done"
                 THEN EndedWithSynthesized(r)
                 ELSE ProducerCanStep(prod[r]))
    /\ [][\A r \in ParseRequests :
             (prod[r].script.id \in NoTerminalIds /\ Measure(prod[r])' # Measure(prod[r]))
                 => LexLess(Measure(prod[r])', Measure(prod[r]))]_vars

\* A stream cut by a transport error after one record.
C6_Witness ==
    \E r \in ParseRequests :
        /\ prod[r].script.id = "error-after-x"
        /\ prod[r].pc = "done"
        /\ prod[r].emitted = <<Event(<<"x">>, FALSE), Event(<<>>, TRUE)>>
        /\ prod[r].rx

\* C7: once a send has failed because the receiver of the hand-off channel
\* is gone, the producer task has stopped.
C7_ProducerStopsOnFailedSend ==
    \A r \in Requests : prod[r].send_failed => prod[r].pc = "done"

\* C8: in incremental mode, once forwarding a token to the client has failed
\* because the client is gone, the drain has stopped (the stream is dropped
\* and the permit released).
C8_DrainStopsOnDisconnect ==
    \A r \in Requests :
        (req[r].mode = "incremental" /\ req[r].failed_forwards >= 1)
            => (req[r].pc = "done" /\ req[r].permit = <<>>)

\* The summaries of a listing for a name.
SummariesIn(list, name) ==
    SelectSeq(list, LAMBDA i : i.name = name)

\* The summaries list_models returns for a name.
SummariesOf(name) == SummariesIn(list_models, name)

\* The summary a load of cfg is to show.
ExpectedSummary(cfg) ==
    [name |-> cfg.name,
     device |-> IF cfg.device = <<>> THEN "cpu" ELSE cfg.device[1],
     backend |-> IF cfg.backend = <<>> THEN "llm" ELSE cfg.backend[1],
     quantization |-> cfg.quantization,
     max_concurrent |-> IF cfg.max_concurrent = <<>> THEN DefaultMaxConcurrent ELSE cfg.max_concurrent[1]]

\* C9: when load_model installs a handle, also under a name already
\* registered, list_models holds exactly one summary for that name, with the
\* device, backend, quantization and max_concurrent resolved from the new
\* config.
C9_LoadReplaces ==
    [][\A l \in LoadCalls :
          (loads[l].pc = "idle" /\ loads'[l].pc = "len")
              => SummariesIn(list_models', loads'[l].cfg.name) = <<ExpectedSummary(loads'[l].cfg)>>]_vars

\* A load has replaced the handle registered at start-up by one with another
\* device, and returned.
C9_Witness ==
    \E l \in LoadCalls :
        /\ loads[l].result = "Ok"
        /\ loads[l].replaced = Some(StartupHandle)
        /\ loads[l].cfg.device = Some("gpu")
        /\ Lookup(models, "a") = Some(l)
        /\ SummariesOf("a") = <<ExpectedSummary(loads[l].cfg)>>

\* C10: a handle replaced by load_model has had its backend's unload called
\* by the time it is dropped.
C10_ReplacedIsUnloaded ==
    \A l \in LoadCalls :
        loads[l].replaced # <<>> => handles[loads[l].replaced[1]].unload_calls >= 1

\* C11: unload_model on a name that is not registered returns NotFound and
\* changes nothing: the registered names, every handle with its semaphore,
\* and the models_loaded gauge (with the other counters) stay as they were.
C11_UnloadUnknownChangesNothing ==
    [][\A u \in UnloadCalls :
          (unloads[u].pc = "idle" /\ unloads'[u].pc # "idle"
              /\ Lookup(models, unloads'[u].name) = <<>>)
              => /\ unloads'[u].result = "NotFound"
                 /\ unloads'[u].pc = "done"
                 /\ models' = models
                 /\ handles' = handles
                 /\ metrics' = metrics]_vars

\* An unload has returned NotFound while a load of another name had
\* installed its handle and not yet stored the gauge.
C11_Witness ==
    \E u \in UnloadCalls, l \in LoadCalls :
        /\ unloads[u].result = "NotFound"
        /\ loads[l].pc = "store"
        /\ models # {}
        /\ metrics.models_loaded # MapLen(models)

\* C12: when the streaming POST to the backend fails, the request ends as a
\* Backend error with HTTP status 500, not as a 200 response.
C12_FailedPostIsServerError ==
    \A r \in Requests :
        (prod[r].script.id = "post-fails" /\ prod[r].pc = "done"
            /\ req[r].result \notin {"", "Cancelled"})
            => StatusOf(req[r].result) = 500

\* What the record model's producer has emitted when the record gave the
\* events evs and the stream then ended.
EndedAfter(evs) == evs \o <<Event(<<>>, TRUE)>>

\* C13: a JSON record is terminal exactly when one of done, stop, completed
\* is boolean true or choices[0].finish_reason is "stop": a terminal record
\* gives one finished event with its text and ends the sequence, any other
\* gives a non-finished event and the next record is parsed.
C13_TerminalIffAnyFlag ==
    \A r \in RecordRequests :
        (prod[r].script.id = "flags" /\ prod[r].pc = "done") =>
            \A dn \in FlagKinds, st \in FlagKinds, cp \in FlagKinds, fr \in ReasonKinds :
                prod[r].script = FlagScript(dn, st, cp, fr) =>
                    prod[r].emitted =
                        IF dn = "true" \/ st = "true" \/ cp = "true" \/ fr = "stop"
                        THEN <<Event(<<"t">>, TRUE)>>
                        ELSE EndedAfter(<<Event(<<"t">>, FALSE), Event(<<"x">>, FALSE)>>)

\* The first of token.text, content, text, choices[0].delta.content and
\* choices[0].text that occurs as a string, or the empty text.
FirstString(t, c, x, d, e) ==
    IF t = "str" THEN <<"a">>
    ELSE IF c = "str" THEN <<"b">>
    ELSE IF x = "str" THEN <<"c">>
    ELSE IF d = "str" THEN <<"d">>
    ELSE IF e = "str" THEN <<"e">>
    ELSE <<>>

\* C14: the text of a JSON record is the first of token.text, content,
\* text, choices[0].delta.content, choices[0].text that is a string, and
\* empty when none is, for every combination of absent, string and
\* non-string fields.
C14_TextIsFirstString ==
    \A r \in RecordRequests :
        (prod[r].script.id = "text" /\ prod[r].pc = "done") =>
            \A t \in FieldKinds, c \in FieldKinds, x \in FieldKinds,
              d \in FieldKinds, e \in FieldKinds :
                prod[r].script = TextScript(t, c, x, d, e) =>
                    prod[r].emitted =
                        IF FirstString(t, c, x, d, e) = <<>>
                        THEN EndedAfter(<<>>)
                        ELSE EndedAfter(<<Event(FirstString(t, c, x, d, e), FALSE)>>)

\* C15: every event the producer hands to the channel has non-empty text or
\* finished = true.
C15_NoEmptyUnfinishedEvent ==
    \A r \in RecordRequests :
        \A i \in 1 .. Len(prod[r].emitted) :
            prod[r].emitted[i].token # <<>> \/ prod[r].emitted[i].finished

FinishIds == {"finish-then-done", "finish-then-more"}

\* C16: a record with choices[0].finish_reason "stop" and the non-empty
\* choices[0].delta.content b gives exactly one event, (b, finished), and
\* with it the producer has ended: nothing of the records after it, in the
\* buffer or in later chunks, is emitted, and no synthesized event follows.
C16_FinishCarriesText ==
    \A r \in ParseRequests :
        prod[r].script.id \in FinishIds =>
            /\ prod[r].emitted \in {<<>>, <<Event(<<"b">>, TRUE)>>}
            /\ prod[r].emitted # <<>> <=> prod[r].pc = "done"
            /\ prod[r].pc = "done" => prod[r].pos = 1

\* The producer has ended on the finish record with another record left in
\* buf and a chunk left unread.
C16_Witness ==
    \E r \in ParseRequests :
        /\ prod[r].script.id = "finish-then-more"
        /\ prod[r].pc = "done"
        /\ prod[r].emitted = <<Event(<<"b">>, TRUE)>>
        /\ prod[r].buf = RecX
        /\ prod[r].rx

\* C17: a complete record that is not empty once trimmed, is not [DONE] and
\* is no JSON gives exactly one event, not finished, whose text is the
\* record trimmed (with an optional data: prefix taken off and the rest
\* trimmed again); the record after it is parsed as usual.
C17_RawFallback ==
    \A r \in RecordRequests :
        prod[r].script.id = "raw" =>
            \A raw \in RawRecords :
                prod[r].script = RawScript(raw) =>
                    LET all == EndedAfter(<<Event(raw.part, FALSE), Event(<<"y">>, FALSE)>>)
                    IN  /\ Len(prod[r].emitted) <= 3
                        /\ prod[r].emitted = SubSeq(all, 1, Len(prod[r].emitted))
                        /\ prod[r].pc = "done" => prod[r].emitted = all

\* The record with blanks around it has been passed on trimmed, and the
\* record after it parsed.
C17_Witness ==
    \E r \in RecordRequests :
        /\ prod[r].script.id = "raw"
        /\ prod[r].pc = "done"
        /\ prod[r].emitted =
               EndedAfter(<<Event(<<"x", " ", "y">>, FALSE), Event(<<"y">>, FALSE)>>)

\* The events the drain of r has taken from the channel, in order.
Taken(r) == SubSeq(prod[r].emitted, 1, req[r].tokens)

\* C18: in incremental mode with the client connected, what has been sent
\* is the role chunk (no content), then one chunk per event taken from the
\* sequence, in order, each with the event's text and with finish_reason
\* "stop" exactly on the finished event, which is the last one taken; and
\* when the task has ended, one [DONE] record after them, as the last
\* record, also when the sequence ended with no finished event.
C18_SseOrder ==
    \A r \in ParseRequests :
        (req[r].mode = "incremental" /\ req[r].client /\ req[r].pc \in {"drain", "done"}) =>
            LET n == req[r].tokens
                evs == Taken(r)
                sent == req[r].sse
                ended == req[r].pc = "done"
            IN  /\ Len(sent) = 1 + n + (IF ended THEN 1 ELSE 0)
                /\ sent[1] = [kind |-> "role", content |-> <<>>, finish_reason |-> <<>>]
                /\ \A i \in 1 .. n :
                      /\ sent[i + 1].kind = "token"
                      /\ sent[i + 1].content =
                             (IF evs[i].token = <<>> THEN <<>> ELSE <<evs[i].token>>)
                      /\ sent[i + 1].finish_reason =
                             (IF evs[i].finished THEN <<"stop">> ELSE <<>>)
                      /\ evs[i].finished => (i = n /\ ended)
                /\ ended =>
                      /\ sent[n + 2].kind = "[DONE]"
                      /\ \A i \in 1 .. n + 1 : sent[i].kind # "[DONE]"
                      /\ \/ n >= 1 /\ evs[n].finished
                         \/ n = Len(prod[r].emitted) /\ \A i \in 1 .. n : ~evs[i].finished

\* A client that stayed connected has received the role chunk, the chunk of
\* x, the chunk of the finished event and [DONE].
C18_Witness ==
    \E r \in ParseRequests :
        /\ req[r].mode = "incremental" /\ req[r].client /\ req[r].pc = "done"
        /\ prod[r].script.id = "done"
        /\ Len(req[r].sse) = 4
        /\ req[r].sse[3].finish_reason = <<"stop">>

\* A sequence ended with no event at all, and its client has received the
\* role chunk and [DONE].
EndedWithoutFinished ==
    \E r \in ParseRequests :
        /\ req[r].mode = "incremental" /\ req[r].client /\ req[r].pc = "done"
        /\ prod[r].script.id = "foreign-empty"
        /\ Len(req[r].sse) = 2

\* The texts of the events before the first finished one, concatenated.
RECURSIVE TextBeforeFinished(_)
TextBeforeFinished(evs) ==
    IF evs = <<>> \/ Head(evs).finished THEN <<>>
    ELSE Head(evs).token \o TextBeforeFinished(Tail(evs))

\* The events up to and including the first finished one.
RECURSIVE UpToFinished(_)
UpToFinished(evs) ==
    IF evs = <<>> THEN <<>>
    ELSE IF Head(evs).finished THEN <<Head(evs)>>
    ELSE <<Head(evs)>> \o UpToFinished(Tail(evs))

\* C19: the content an aggregate request returns is the concatenation, in
\* order, of the texts of the events before the first finished event (its
\* own text left out); the drain has taken the events up to that one and no
\* more, and the response carries finish_reason "stop".
C19_AggregateContent ==
    \A r \in ParseRequests :
        (req[r].mode = "aggregate" /\ req[r].result = "Json") =>
            /\ AggregateChoice(req[r]).content = TextBeforeFinished(prod[r].emitted)
            /\ req[r].tokens = Len(UpToFinished(prod[r].emitted))
            /\ AggregateChoice(req[r]).finish_reason = "stop"

\* An aggregate response to a sequence whose finished event carried the
\* text b: the content is empty.
C19_Witness ==
    \E r \in ParseRequests :
        /\ req[r].mode = "aggregate" /\ req[r].result = "Json"
        /\ prod[r].script.id = "finish-then-more"
        /\ prod[r].emitted = <<Event(<<"b">>, TRUE)>>
        /\ req[r].content = <<>>

\* C20: what list_models returns is the registry's contents at one instant
\* between the call and its return, and every summary in it is that of an
\* installed handle.
C20_ListIsSnapshot ==
    \A c \in ListCalls :
        lists[c].pc = "done" =>
            /\ lists[c].out \in lists[c].seen
            /\ \A sm \in lists[c].out :
                  \E h \in HandleIds : handles[h].state # "fresh" /\ handles[h].info = sm

\* C21: the max_tokens posted to the backend is the least of the caller's
\* max_tokens (the configured limits.max_tokens when the caller gives none),
\* the configured limits.max_tokens and the model's context length; so it
\* exceeds neither the configured ceiling nor the context length.
C21_MaxTokensCapped ==
    \A r \in ParamRequests :
        prod[r].n_predict # <<>> =>
            LET sent == prod[r].n_predict[1]
                asked == IF req[r].body_max_tokens = <<>>
                         THEN limits.max_tokens
                         ELSE req[r].body_max_tokens[1]
                ceiling == limits.max_tokens
                context == handles[StartupHandle].max_context
            IN  /\ sent \in {asked, ceiling, context}
                /\ sent <= asked
                /\ sent <= ceiling
                /\ sent <= context

\* The caller asks for more than the ceiling, and the ceiling is above the
\* context length: the context length was posted.
C21_Witness ==
    \E r \in ParamRequests :
        /\ req[r].body_max_tokens = Some(1000000)
        /\ limits.max_tokens = 4096
        /\ handles[StartupHandle].max_context = DefaultContext
        /\ prod[r].n_predict = Some(DefaultContext)
        /\ prod[r].pc = "done"

\* The assembler of request r has not stopped consuming its stream.
Draining(r) == req[r].pc \in {"role", "drain", "agg"}

\* C22: while an assembler (the spawned drain task of stream_chat, whose
\* handler has returned, or the loop of aggregate_chat) has not stopped
\* consuming, the permit of its generation is outstanding: it is held, not
\* yet released, and missing from its semaphore.
C22_PermitHeldWhileDraining ==
    \A r \in Requests :
        /\ Draining(r) =>
              /\ req[r].permit # <<>>
              /\ req[r].released = 0
              /\ handles[req[r].permit[1]].available
                    < handles[req[r].permit[1]].info.max_concurrent
        /\ req[r].released >= 1 => req[r].pc = "done"

\* An incremental drain whose handler has returned the SSE response has an
\* event waiting, beside an aggregate drain; both hold their permits.
C22_Witness ==
    \E r1, r2 \in Requests :
        /\ req[r1].mode = "incremental" /\ req[r1].pc = "drain"
        /\ req[r1].result = "Sse" /\ prod[r1].chan # <<>>
        /\ req[r1].permit # <<>>
        /\ req[r2].mode = "aggregate" /\ req[r2].pc = "agg"
        /\ req[r2].permit # <<>>

\* The events an incremental consumer has received, read back from the token
\* chunks sent to the client.
ReceivedSse(r) ==
    LET chunks == SelectSeq(req[r].sse, LAMBDA c : c.kind = "token")
    IN  [i \in 1 .. Len(chunks) |->
            Event(UnwrapOr(chunks[i].content, <<>>), chunks[i].finish_reason # <<>>)]

\* What an aggregate consumer has received agrees with the first events
\* emitted: their number, and the text of those before a finished one.
ReceivedAgg(r) ==
    LET n == req[r].tokens
        texts == SelectSeq(SubSeq(prod[r].emitted, 1, n), LAMBDA e : ~e.finished)
    IN  /\ n <= Len(prod[r].emitted)
        /\ Len(req[r].content) = Len(texts)
        /\ \A i \in 1 .. Len(texts) : texts[i].token = <<req[r].content[i]>>

\* C23: with a live consumer, what the consumer has received followed by
\* what waits in the hand-off channel is what the producer has emitted, in
\* that order, nothing dropped and nothing twice; the channel never holds
\* more than its capacity; and when the consumer has ended it has received
\* all that was emitted.
C23_ChannelDeliversAll ==
    \A r \in FlowRequests :
        /\ Len(prod[r].chan) <= ChannelCapacity
        /\ req[r].mode = "incremental" =>
              /\ Draining(r) => ReceivedSse(r) \o prod[r].chan = prod[r].emitted
              /\ req[r].pc = "done" => ReceivedSse(r) = prod[r].emitted
        /\ req[r].mode = "aggregate" =>
              /\ ReceivedAgg(r)
              /\ Draining(r) =>
                    prod[r].chan = SubSeq(prod[r].emitted, req[r].tokens + 1,
                                          Len(prod[r].emitted))
              /\ req[r].pc = "done" => req[r].tokens = Len(prod[r].emitted)

\* The producer waits on a full channel with its next event in hand, the
\* consumer having taken some events already.
C23_Witness ==
    \E r \in FlowRequests :
        /\ Len(prod[r].chan) = ChannelCapacity
        /\ prod[r].pc = "parse"
        /\ RecordStep(prod[r].buf).emit # <<>>
        /\ req[r].tokens >= 1
        /\ req[r].client

\* The long stream has been delivered whole after the producer had to wait.
FlowDelivered ==
    \E r \in FlowRequests :
        /\ req[r].pc = "done"
        /\ req[r].mode = "incremental"
        /\ prod[r].script.id = "flow-one"
        /\ Len(ReceivedSse(r)) = Len(FlowLetters) + 1
        /\ \A i \in 1 .. Len(FlowLetters) :
              ReceivedSse(r)[i] = Event(<<FlowLetters[i]>>, FALSE)

Rejections == {"Overloaded", "NotFound"}

\* C24: a stream request rejected with Overloaded or NotFound leaves the
\* core as it was: the step that rejects it changes no handle (so no permit
\* count), no producer and not the registry; and from then on the request is
\* over, holds and has held no permit, and has no producer task and no
\* request to the backend, so it is never queued or admitted later.
C24_RejectionHasNoEffect ==
    /\ [](\A r \in Requests :
             req[r].result \in Rejections =>
                 /\ req[r].pc = "done"
                 /\ req[r].acquired = 0
                 /\ req[r].permit = <<>>
                 /\ prod[r] = IdleProducer)
    /\ [][\A r \in Requests :
             (req[r].pc = "entered" /\ req'[r].result \in Rejections) =>
                 /\ handles' = handles
                 /\ prod' = prod
                 /\ models' = models]_vars

\* A request was refused with Overloaded while the other holds the only
\* permit of the handle and is still draining.
C24_Witness ==
    \E r1, r2 \in Requests :
        /\ req[r1].result = "Overloaded"
        /\ Draining(r2)
        /\ req[r2].permit # <<>>
        /\ handles[req[r2].permit[1]].available = 0
        /\ prod[r2].pc # "none"

\* A request for a name that is not registered was refused with NotFound.
RejectedNotFound ==
    \E r \in Requests :
        req[r].result = "NotFound" /\ req[r].model = "b" /\ Lookup(models, "b") = <<>>

\* The events of a response whose bytes all arrive as one chunk, the text
\* left in buf being s: the records in turn up to a terminal one, else the
\* final event.
RECURSIVE EventsOfText(_)
EventsOfText(s) ==
    LET step == RecordStep(s)
    IN  IF ~step.more THEN <<Event(<<>>, TRUE)>>
        ELSE IF step.stop THEN step.emit
        ELSE step.emit \o EventsOfText(step.buf)

WholeEvents(bytes) == EventsOfText(PushChunk(<<>>, bytes))

\* The bytes of a response, chunk after chunk (for the two-chunk streams).
BytesOf(script) == script.items[1].bytes \o script.items[2].bytes

\* C25: a response delivered in two chunks, split at any byte, gives the
\* events it gives when delivered as one chunk, also when the split falls
\* inside a multi-byte character.
C25_AnyPartition ==
    \A r \in ParseRequests :
        (prod[r].script.id \in {"split", "acute"} /\ prod[r].pc = "done")
            => prod[r].emitted = WholeEvents(BytesOf(prod[r].script))

\* Apart from the split inside the character, every split of the e-acute
\* stream gives the events of the whole stream.
AcuteSplitsElsewhere ==
    \A r \in ParseRequests :
        (/\ prod[r].script.id = "acute"
         /\ prod[r].pc = "done"
         /\ Len(prod[r].script.items[1].bytes) # 13)
            => prod[r].emitted = <<Event(<<"e-acute">>, FALSE), Event(<<>>, TRUE)>>

\* C26: a load_model call whose backend kind is none of absent, "llm",
\* "llama-server" ends with a Backend error in the step it is made, and that
\* step leaves the registry, every handle and the metrics as they were.
C26_UnsupportedBackendChangesNothing ==
    [][\A l \in LoadCalls :
          (/\ loads[l].pc = "idle"
           /\ loads'[l].pc # "idle"
           /\ loads'[l].cfg.backend \notin {<<>>, <<"llm">>, <<"llama-server">>})
              => /\ loads'[l].pc = "done"
                 /\ loads'[l].result = "Backend"
                 /\ models' = models
                 /\ handles' = handles
                 /\ metrics' = metrics]_vars

\* A load of the registered name "a" with an unsupported kind has failed,
\* nothing else having run: "a" is still served by the start-up handle.
C26_Witness ==
    \E l \in LoadCalls :
        /\ loads[l].result = "Backend"
        /\ loads[l].cfg.name = "a"
        /\ \A k \in LoadCalls \ {l} : loads[k].pc = "idle"
        /\ \A u \in UnloadCalls : unloads[u].pc = "idle"
        /\ Lookup(models, "a") = Some(StartupHandle)
        /\ handles[StartupHandle].state = "live"
        /\ metrics.models_loaded = 1

\* No load_model and no unload_model call is in progress.
RegistryQuiet ==
    /\ \A l \in LoadCalls : loads[l].pc \in {"idle", "done"}
    /\ \A u \in UnloadCalls : unloads[u].pc \in {"idle", "done"}

\* C27: whenever no load_model or unload_model call is in progress, the
\* models_loaded gauge is the number of names in the registry.
C27_GaugeIsRegistrySize ==
    RegistryQuiet => metrics.models_loaded = MapLen(models)

\* The requests whose InflightGuard exists: they have entered stream_chat or
\* aggregate_chat and their handler, or the drain task the guard was moved
\* into, has not ended.
InFlight == {r \in Requests : req[r].pc \notin {"idle", "done"}}

\* C28: the active_requests gauge is the number of requests whose
\* InflightGuard has not been dropped; so it is never negative, and zero
\* when no request is in flight. A request holds its guard exactly from
\* entering until its end, on every path.
C28_ActiveRequestsGauge ==
    /\ metrics.active_requests = Cardinality(InFlight)
    /\ metrics.active_requests >= 0
    /\ \A r \in Requests : req[r].guard <=> r \in InFlight
    /\ metrics.requests_total = Cardinality({r \in Requests : req[r].pc # "idle"})

\* Both requests are over, one rejected, the other an incremental one ended
\* by its drain task, and the gauge is back at zero.
C28_Witness ==
    \E r1, r2 \in Requests :
        /\ req[r1].pc = "done" /\ req[r1].result \in Rejections
        /\ req[r2].pc = "done" /\ req[r2].result = "Sse"
        /\ metrics.active_requests = 0
        /\ metrics.requests_total = 2

\* The other ways a request ends: a Backend error, a JSON response, a
\* cancelled aggregate request; and a request in flight beside one ended.
GuardDroppedOtherwise ==
    \E r1, r2 \in Requests :
        /\ req[r1].pc = "done" /\ req[r1].result \in {"Backend", "Json", "Cancelled"}
        /\ r2 \in InFlight
        /\ metrics.active_requests = 1

\* The generations in flight on handle h, and on any handle of a name.
InFlightOn(h) == {r \in ReloadRequests : req[r].permit = Some(h)}
InFlightFor(name) == {r \in ReloadRequests : req[r].permit # <<>> /\ req[r].model = name}

\* C29: a load_model or unload_model step leaves every request and every
\* producer as it was (nothing is cancelled) and moves no permit; the handle
\* a load installs has all its max_concurrent permits available; a
\* generation keeps the permit of the handle that admitted it, can always go
\* on, and releases into that handle's semaphore and no other.
C29_ReloadKeepsGenerations ==
    /\ [](\A h \in HandleIds :
             handles[h].state # "fresh" =>
                 handles[h].available + Cardinality(InFlightOn(h))
                     = handles[h].info.max_concurrent)
    /\ [](\A r \in ReloadRequests :
             Draining(r) => (DrainCanStep(r) \/ ProducerCanStep(prod[r])))
    /\ [][(loads' # loads \/ unloads' # unloads) =>
             /\ req' = req
             /\ prod' = prod
             /\ \A h \in HandleIds :
                   handles[h].state # "fresh" => handles'[h].available = handles[h].available]_vars
    /\ [][\A l \in ReloadLoads :
             (loads[l].pc = "idle" /\ loads'[l].pc = "len") =>
                 /\ Lookup(models', loads'[l].cfg.name) = Some(l)
                 /\ handles'[l].available = handles'[l].info.max_concurrent
                 /\ InFlightOn(l) = {}]_vars
    /\ [][\A r \in ReloadRequests, h \in HandleIds :
             (req[r].permit = Some(h) /\ req'[r].permit # Some(h)) =>
                 /\ req'[r].permit = <<>>
                 /\ handles'[h].available = handles[h].available + 1
                 /\ \A k \in HandleIds \ {h} : handles'[k].available = handles[k].available]_vars

\* Across a reload of "a" to a handle of max_concurrent 1, two generations on
\* "a" are in flight, one on the replaced handle and one on the new.
C29_Witness ==
    \E r1, r2 \in ReloadRequests, l \in ReloadLoads :
        /\ Lookup(models, "a") = Some(l)
        /\ handles[l].info.max_concurrent = 1
        /\ req[r1].permit = Some(StartupHandle) /\ Draining(r1)
        /\ req[r2].permit = Some(l) /\ Draining(r2)
        /\ Cardinality(InFlightFor("a")) > handles[l].info.max_concurrent

\* A generation admitted before "a" was unloaded has ended with its response
\* after the unload, its permit back in the removed handle's semaphore.
EndedAfterUnload ==
    \E r \in ReloadRequests, u \in UnloadCalls :
        /\ unloads[u].result = "Ok" /\ unloads[u].removed = Some(StartupHandle)
        /\ req[r].pc = "done" /\ req[r].result \in {"Sse", "Json"}
        /\ handles[StartupHandle].state = "dropped"
        /\ handles[StartupHandle].available = handles[StartupHandle].info.max_concurrent

====
